---- MODULE Spec2Model ----
(***************************************************************************)
(* A model of aerotrack's live-data pipeline: the server-side shared poll  *)
(* and broadcast service (FlightDataService), the credential provider it   *)
(* awaits (AuthManager), the record normalizer (processFlightData), the    *)
(* bounds aggregator (getOptimalBounds) and the viewer's reconciler (the   *)
(* useFlightData hook).                                                    *)
(***************************************************************************)
EXTENDS Integers, Sequences, FiniteSets, TLC

VARIABLES
    connectedClients,   \* FlightDataService.connectedClients : Set<string>
    clientBounds,       \* FlightDataService.clientBounds : Map<string, GeographicBounds>
    pollingInterval,    \* FlightDataService.pollingInterval : handle or NoTimer (null)
    timers,             \* the interval timers of the event loop that are still armed
    lastFlightData,     \* FlightDataService.lastFlightData : ProcessedFlightData[]
    cycles,             \* the calls of fetchAndBroadcastFlightData suspended at an await
    openSkyToken,       \* AuthManager.openSkyToken is set and Date.now() < expiresAt
    refreshPromise,     \* AuthManager.refreshPromise !== null
    tokenRequests,      \* the calls of requestOpenSkyToken whose axios.post is pending
    now,                \* the reading of Date.now(); no handler branches on it
    fetched,            \* a call of fetchAndBroadcastFlightData has written lastFlightData
    out,                \* what the handler that ran last emitted or returned
    ev,                 \* the handler that ran last and what it started
    arg,                \* the argument a function studied on its own is applied to
    ret,                \* what that function returned
    flights,            \* useFlightData: the state flights : Map<string, FlightData>
    stats,              \* useFlightData: the state stats : FlightStats
    error,              \* useFlightData: the state error : string | null
    isLoading,          \* useFlightData: the state isLoading
    isMountedRef,       \* useFlightData: isMountedRef.current
    updateCountRef,     \* useFlightData: updateCountRef.current
    lastUpdateTimeRef,  \* useFlightData: lastUpdateTimeRef.current
    clock,              \* the reading of Date.now() in the browser, in ms
    vev,                \* the handler of the hook that ran last
    socket,             \* socketService.socket: null, or its connected flag
    timeout,            \* debounce: the timer of the pending call, with its arguments
    emitted,            \* the updateBounds events the socket sent, with their times
    wire,               \* the updateBounds events sent that the server has yet to handle
    changes             \* the calls of updateBounds so far, with their times

serviceVars == <<connectedClients, clientBounds, pollingInterval, timers,
                 lastFlightData, cycles, openSkyToken, refreshPromise, tokenRequests, now, fetched,
                 out, ev>>

pureVars == <<arg, ret>>

debounceVars == <<timeout, emitted, wire, changes>>

viewerVars == <<flights, stats, error, isLoading, isMountedRef, updateCountRef,
                lastUpdateTimeRef, clock, vev, socket, debounceVars>>

vars == <<serviceVars, pureVars, viewerVars>>

----------------------------------------------------------------------------
(* Bounds of the model *)

MaxInFlight == 2     \* calls of fetchAndBroadcastFlightData suspended at once

Clients == {"c1", "c2"}

----------------------------------------------------------------------------
(* JavaScript values *)

Null == [t |-> "null"]
Undef == [t |-> "undef"]
Num(n) == [t |-> "num", v |-> n]
Str(s) == [t |-> "str", v |-> s]
Bool(b) == [t |-> "bool", v |-> b]
Arr(s) == [t |-> "arr", v |-> s]

\* ToBoolean, as used by !x and x || y
Truthy(x) ==
    CASE x.t = "null" -> FALSE
      [] x.t = "undef" -> FALSE
      [] x.t = "num" -> x.v # 0
      [] x.t = "str" -> x.v # <<>>
      [] x.t = "bool" -> x.v
      [] OTHER -> TRUE

JsOr(x, d) == IF Truthy(x) THEN x ELSE d

\* state[i] on an array: an index past the end reads undefined
At(state, i) ==
    IF state.t = "arr" /\ (i + 1) \in DOMAIN state.v THEN state.v[i + 1] ELSE Undef

\* Strings are sequences of one-character strings.
LowerCase == <<"a","b","c","d","e","f","g","h","i","j","k","l","m",
               "n","o","p","q","r","s","t","u","v","w","x","y","z">>
UpperCase == <<"A","B","C","D","E","F","G","H","I","J","K","L","M",
               "N","O","P","Q","R","S","T","U","V","W","X","Y","Z">>
WhiteSpace == {" ", "\t"}

ToUpperChar(c) ==
    IF \E i \in DOMAIN LowerCase : LowerCase[i] = c
    THEN UpperCase[CHOOSE i \in DOMAIN LowerCase : LowerCase[i] = c]
    ELSE c

ToUpperCase(s) == [i \in DOMAIN s |-> ToUpperChar(s[i])]

RECURSIVE TrimStart(_)
TrimStart(s) ==
    IF s # <<>> /\ Head(s) \in WhiteSpace THEN TrimStart(Tail(s)) ELSE s

RECURSIVE TrimEnd(_)
TrimEnd(s) ==
    IF s # <<>> /\ s[Len(s)] \in WhiteSpace
    THEN TrimEnd(SubSeq(s, 1, Len(s) - 1)) ELSE s

Trim(s) == TrimEnd(TrimStart(s))

Unknown == <<"U","n","k","n","o","w","n">>

----------------------------------------------------------------------------
(* RecordNormalizer *)

Thrown == [ok |-> FALSE]
Returned(v) == [ok |-> TRUE, val |-> v]

Categories == <<
    <<"U","n","k","n","o","w","n">>,
    <<"L","i","g","h","t">>,
    <<"S","m","a","l","l">>,
    <<"L","a","r","g","e">>,
    <<"H","i","g","h"," ","V","o","r","t","e","x"," ","L","a","r","g","e">>,
    <<"H","e","a","v","y">>,
    <<"H","i","g","h"," ","P","e","r","f","o","r","m","a","n","c","e">>,
    <<"R","o","t","o","r","c","r","a","f","t">> >>

\* categories[categoryCode] || 'Unknown'
GetAircraftCategory(categoryCode) ==
    IF categoryCode.t = "num" /\ (categoryCode.v + 1) \in DOMAIN Categories
    THEN Str(Categories[categoryCode.v + 1])
    ELSE Str(Unknown)

\* (callsign || '').trim().toUpperCase(); the argument is a string here
NormalizeCallsign(callsign) ==
    Str(ToUpperCase(Trim(JsOr(callsign, Str(<<>>)).v)))

\* the filter callback
HasPosition(state) == At(state, 6) # Null /\ At(state, 5) # Null

\* the map callback
ToProcessed(state, t) ==
    [ icao24 |-> JsOr(At(state, 0), Str(<<>>)),
      callsign |-> NormalizeCallsign(JsOr(At(state, 1), Str(Unknown))),
      originCountry |-> JsOr(At(state, 2), Str(Unknown)),
      position |-> IF At(state, 6) # Null /\ At(state, 5) # Null
                   THEN [ latitude |-> At(state, 6),
                          longitude |-> At(state, 5),
                          altitude |-> JsOr(At(state, 7), Num(0)) ]
                   ELSE Null,
      velocity |-> [ speed |-> JsOr(At(state, 9), Num(0)),
                     heading |-> JsOr(At(state, 10), Num(0)),
                     verticalRate |-> JsOr(At(state, 11), Num(0)) ],
      onGround |-> JsOr(At(state, 8), Bool(FALSE)),
      lastUpdate |-> JsOr(At(state, 4), Num(t)),
      category |-> GetAircraftCategory(JsOr(At(state, 17), Num(0))) ]

\* an entry the callbacks can read: state[6] on null or undefined throws in the
\* filter, and .trim() on a truthy callsign that is no string throws in the map
Readable(state) ==
    /\ state.t \notin {"null", "undef"}
    /\ (HasPosition(state) /\ Truthy(At(state, 1)) => At(state, 1).t = "str")

RECURSIVE MapKept(_, _)
MapKept(states, t) ==
    IF states = <<>> THEN <<>>
    ELSE IF HasPosition(Head(states))
         THEN <<ToProcessed(Head(states), t)>> \o MapKept(Tail(states), t)
         ELSE MapKept(Tail(states), t)

\* a normalizer without the Array.isArray test: filter on what is no array throws
ProcessFlightData_NoArrayTest(rawData, t) ==
    IF \/ ~Truthy(rawData)
       \/ ~Truthy(IF rawData.t = "obj" THEN rawData.states ELSE Undef)
    THEN Returned(<<>>)
    ELSE IF rawData.states.t # "arr"
         THEN Thrown
         ELSE IF \E i \in DOMAIN rawData.states.v : ~Readable(rawData.states.v[i])
              THEN Thrown
              ELSE Returned(MapKept(rawData.states.v, t))

\* processFlightData(rawData), at time t (seconds)
ProcessFlightData(rawData, t) ==
    IF \/ ~Truthy(rawData)
       \/ ~Truthy(IF rawData.t = "obj" THEN rawData.states ELSE Undef)
       \/ rawData.states.t # "arr"
    THEN Returned(<<>>)
    ELSE IF \E i \in DOMAIN rawData.states.v : ~Readable(rawData.states.v[i])
         THEN Thrown
         ELSE Returned(MapKept(rawData.states.v, t))

----------------------------------------------------------------------------
(* BoundsAggregator *)

Box(s, w, n, e) == [lamin |-> s, lomin |-> w, lamax |-> n, lomax |-> e]

\* the regions a client may send with updateBounds
BoundsVals == { Box(45, 5, 47, 10), Box(40, 0, 50, 15) }

Min(S) == CHOOSE x \in S : \A y \in S : x <= y
Max(S) == CHOOSE x \in S : \A y \in S : x >= y

\* an aggregate that takes the first region when several are stored
GetOptimalBounds_First(cb) ==
    IF Cardinality(DOMAIN cb) = 0 THEN Null
    ELSE cb[CHOOSE c \in DOMAIN cb : \A d \in DOMAIN cb : c <= d]

\* getOptimalBounds(), on the map cb
GetOptimalBounds(cb) ==
    IF Cardinality(DOMAIN cb) = 0 THEN Null
    ELSE IF Cardinality(DOMAIN cb) = 1 THEN cb[CHOOSE c \in DOMAIN cb : TRUE]
    ELSE [ lamin |-> Min({cb[c].lamin : c \in DOMAIN cb}),
           lomin |-> Min({cb[c].lomin : c \in DOMAIN cb}),
           lamax |-> Max({cb[c].lamax : c \in DOMAIN cb}),
           lomax |-> Max({cb[c].lomax : c \in DOMAIN cb}) ]

\* Map.set and Map.delete
MapSet(m, k, v) == [x \in (DOMAIN m) \cup {k} |-> IF x = k THEN v ELSE m[x]]
MapDelete(m, k) == [x \in (DOMAIN m) \ {k} |-> m[x]]

----------------------------------------------------------------------------
(* The upstream feed *)

StateVector(icao, cs, lon, lat, alt, spd, cat) ==
    Arr(<< Str(icao), cs, Str(<<"C","H">>), Num(7), Num(7), lon, lat, alt,
           Bool(FALSE), spd, Num(180), Num(0), Null, Num(11000), Null,
           Bool(FALSE), Num(0), cat >>)

FlightA == StateVector(<<"a","1">>, Str(<<"S","W","R","8","T"," "," ">>),
                       Num(8), Num(47), Num(10972), Num(250), Num(1))
FlightB == StateVector(<<"b","2">>, Null, Num(9), Num(46), Null, Null, Null)
NoLongitude == StateVector(<<"c","3">>, Str(<<"T","1">>), Null, Num(47),
                           Num(100), Num(10), Num(1))

\* response.data of a successful GET /states/all
UpstreamSnapshots ==
    { [t |-> "obj", states |-> Null],
      [t |-> "obj", states |-> Arr(<<NoLongitude, FlightB>>)],
      [t |-> "obj", states |-> Arr(<<FlightA, Null>>)] }

\* error.message of a rejected axios.get
AxiosErrors == { "timeout of 30000ms exceeded", "Network Error" }

----------------------------------------------------------------------------
(* Messages *)

NoTimer == 0

FlightUpdateTo(id, processed, t) ==
    [ to |-> id, event |-> "flightUpdate", flights |-> processed,
      timestamp |-> t, totalFlights |-> Len(processed) ]

FlightUpdateAll(processed, t, bounds) ==
    [ to |-> "all", event |-> "flightUpdate", flights |-> processed,
      timestamp |-> t, totalFlights |-> Len(processed), bounds |-> bounds ]

FlightError(msg, t) ==
    [ to |-> "all", event |-> "flightError", error |-> "Failed to fetch flight data",
      timestamp |-> t, message |-> msg ]

\* op: the handler; id: its socket; prevCount: connectedClients.size when it was
\* entered; started: the calls of fetchAndBroadcastFlightData it made; late: the
\* suspended call it resumed to its end had been overtaken; shifted: a call it
\* resumed with the token read another aggregate than the one at its trigger
Event(op, id, started, late) ==
    [ op |-> op, id |-> id, prevCount |-> Cardinality(connectedClients),
      started |-> started, late |-> late, shifted |-> FALSE ]

----------------------------------------------------------------------------
(* AuthManager and the fetch cycle *)

\* A call of fetchAndBroadcastFlightData suspended at an await, in the order the
\* calls were made.
\*   phase "token": at `await authManager.getValidOpenSkyToken()`;
\*      trigger: the aggregate of clientBounds when the call was made
\*   phase "http": at `await axios.get(url, ...)`;
\*      bounds: the `bounds` the request was sent with
\*      overtaken: a call made later has already written lastFlightData
Requested(bounds) == [phase |-> "http", bounds |-> bounds, overtaken |-> FALSE]

AwaitingToken(cb) == [phase |-> "token", trigger |-> GetOptimalBounds(cb)]

NewCycle(cb) ==
    IF openSkyToken THEN Requested(GetOptimalBounds(cb)) ELSE AwaitingToken(cb)

\* a getValidOpenSkyToken() that starts a refresh whenever the token is not valid
GetValidOpenSkyToken_NoReuse ==
    /\ refreshPromise' = (IF openSkyToken THEN refreshPromise ELSE TRUE)
    /\ tokenRequests' = (IF openSkyToken THEN tokenRequests ELSE tokenRequests + 1)
    /\ UNCHANGED openSkyToken

\* getValidOpenSkyToken(): a valid token is returned at once, a refresh in progress
\* is awaited, and otherwise a refresh is started
GetValidOpenSkyToken ==
    /\ refreshPromise' = (IF openSkyToken THEN refreshPromise ELSE TRUE)
    /\ tokenRequests' = (IF openSkyToken \/ refreshPromise THEN tokenRequests
                         ELSE tokenRequests + 1)
    /\ UNCHANGED openSkyToken

\* fetchAndBroadcastFlightData(), up to its first await that waits for the network;
\* with a valid token the continuation runs as a microtask, before any other
\* handler, and reads the clientBounds cb the calling handler leaves
FetchAndBroadcastFlightData(cb) ==
    /\ Len(cycles) < MaxInFlight
    /\ GetValidOpenSkyToken
    /\ cycles' = Append(cycles, NewCycle(cb))

NewHandle == CHOOSE h \in 1..(Cardinality(timers) + 1) : h \notin timers

\* a startPolling that arms the timer without the immediate fetch
StartPolling_NoFetch(cb) ==
    IF pollingInterval # NoTimer
    THEN UNCHANGED <<pollingInterval, timers, cycles, openSkyToken, refreshPromise, tokenRequests>>
    ELSE /\ pollingInterval' = NewHandle
         /\ timers' = timers \cup {NewHandle}
         /\ UNCHANGED <<cycles, openSkyToken, refreshPromise, tokenRequests>>

\* a startPolling without the test of pollingInterval
StartPolling_Unguarded(cb) ==
    /\ FetchAndBroadcastFlightData(cb)
    /\ pollingInterval' = NewHandle
    /\ timers' = timers \cup {NewHandle}

\* startPolling()
StartPolling(cb) ==
    IF pollingInterval # NoTimer
    THEN UNCHANGED <<pollingInterval, timers, cycles, openSkyToken, refreshPromise, tokenRequests>>
    ELSE /\ FetchAndBroadcastFlightData(cb)
         /\ pollingInterval' = NewHandle
         /\ timers' = timers \cup {NewHandle}

\* a stopPolling that forgets the handle without clearInterval
StopPolling_NoClear ==
    /\ pollingInterval' = NoTimer
    /\ UNCHANGED timers

StopPolling ==
    IF pollingInterval # NoTimer
    THEN /\ timers' = timers \ {pollingInterval}
         /\ pollingInterval' = NoTimer
    ELSE UNCHANGED <<pollingInterval, timers>>

\* the cached data sent with io.emit instead of socket.emit
CachedFor_Broadcast(id) ==
    IF Len(lastFlightData) > 0
    THEN <<[FlightUpdateTo(id, lastFlightData, now) EXCEPT !.to = "all"]>>
    ELSE <<>>

\* the cached data sent to the socket that connects
CachedFor(id) ==
    IF Len(lastFlightData) > 0
    THEN <<FlightUpdateTo(id, lastFlightData, now)>>
    ELSE <<>>

\* statistics that count the subscribers as flights
GetStatistics_CountsClients ==
    [ connectedClients |-> Cardinality(connectedClients),
      lastUpdateTime |-> IF Len(lastFlightData) > 0 THEN Num(now) ELSE Null,
      totalFlights |-> Cardinality(connectedClients),
      isPolling |-> pollingInterval # NoTimer ]

\* getStatistics()
GetStatistics ==
    [ connectedClients |-> Cardinality(connectedClients),
      lastUpdateTime |-> IF Len(lastFlightData) > 0 THEN Num(now) ELSE Null,
      totalFlights |-> Len(lastFlightData),
      isPolling |-> pollingInterval # NoTimer ]

----------------------------------------------------------------------------
(* Handlers *)

HandleClientConnection(id) ==
    /\ connectedClients' = connectedClients \cup {id}
    /\ out' = CachedFor(id)
    /\ IF Cardinality(connectedClients') = 1
       THEN StartPolling(clientBounds)
       ELSE UNCHANGED <<pollingInterval, timers, cycles, openSkyToken, refreshPromise, tokenRequests>>
    /\ ev' = Event("join", id, Len(cycles') - Len(cycles), FALSE)
    /\ UNCHANGED <<clientBounds, lastFlightData, now, fetched>>
    /\ UNCHANGED <<pureVars, viewerVars>>

\* a disconnection that leaves the client's bounds in the map
HandleClientDisconnection_KeepBounds(id) ==
    /\ connectedClients' = connectedClients \ {id}
    /\ IF Cardinality(connectedClients') = 0
       THEN StopPolling
       ELSE UNCHANGED <<pollingInterval, timers>>
    /\ out' = <<>>
    /\ ev' = Event("leave", id, 0, FALSE)
    /\ UNCHANGED <<clientBounds, lastFlightData, cycles, openSkyToken,
                   refreshPromise, tokenRequests, now, fetched>>
    /\ UNCHANGED <<pureVars, viewerVars>>

HandleClientDisconnection(id) ==
    /\ connectedClients' = connectedClients \ {id}
    /\ clientBounds' = MapDelete(clientBounds, id)
    /\ IF Cardinality(connectedClients') = 0
       THEN StopPolling
       ELSE UNCHANGED <<pollingInterval, timers>>
    /\ out' = <<>>
    /\ ev' = Event("leave", id, 0, FALSE)
    /\ UNCHANGED <<lastFlightData, cycles, openSkyToken, refreshPromise, tokenRequests, now,
                   fetched>>
    /\ UNCHANGED <<pureVars, viewerVars>>

\* an updateClientBounds that restarts the interval for the new bounds
UpdateClientBounds_Rearm(id, bounds) ==
    /\ clientBounds' = MapSet(clientBounds, id, bounds)
    /\ FetchAndBroadcastFlightData(clientBounds')
    /\ pollingInterval' = NewHandle
    /\ timers' = (timers \ {pollingInterval}) \cup {NewHandle}
    /\ out' = <<>>
    /\ ev' = Event("setBounds", id, 1, FALSE)
    /\ UNCHANGED <<connectedClients, lastFlightData, now, fetched>>
    /\ UNCHANGED <<pureVars, viewerVars>>

\* updateClientBounds as far as the service's own fields go
SetClientBounds(id, bounds) ==
    /\ clientBounds' = MapSet(clientBounds, id, bounds)
    /\ FetchAndBroadcastFlightData(clientBounds')
    /\ out' = <<>>
    /\ ev' = Event("setBounds", id, 1, FALSE)
    /\ UNCHANGED <<connectedClients, pollingInterval, timers, lastFlightData, now,
                   fetched>>

UpdateClientBounds(id, bounds) ==
    /\ SetClientBounds(id, bounds)
    /\ UNCHANGED <<pureVars, viewerVars>>

\* the setInterval callback of an armed timer
Tick(h) ==
    /\ h \in timers
    /\ FetchAndBroadcastFlightData(clientBounds)
    /\ out' = <<>>
    /\ ev' = Event("tick", "-", 1, FALSE)
    /\ UNCHANGED <<connectedClients, clientBounds, pollingInterval, timers,
                   lastFlightData, now, fetched>>
    /\ UNCHANGED <<pureVars, viewerVars>>

\* the openSkyAuth middleware of a REST request asks for a token too
OpenSkyAuth ==
    /\ ~openSkyToken /\ ~refreshPromise
    /\ GetValidOpenSkyToken
    /\ out' = <<>>
    /\ ev' = Event("rest", "-", 0, FALSE)
    /\ UNCHANGED <<connectedClients, clientBounds, pollingInterval, timers,
                   lastFlightData, cycles, now, fetched>>
    /\ UNCHANGED <<pureVars, viewerVars>>

\* the bounds read before the await instead of after it
ResumeWithToken_AtTrigger(cs, cb) ==
    [ i \in DOMAIN cs |->
        IF cs[i].phase = "token" THEN Requested(cs[i].trigger) ELSE cs[i] ]

\* the calls suspended at the token, resumed with it: each reads the bounds and
\* sends its request
ResumeWithToken(cs, cb) ==
    [ i \in DOMAIN cs |->
        IF cs[i].phase = "token"
        THEN Requested(GetOptimalBounds(cb))
        ELSE cs[i] ]

\* the number of calls suspended at the token
Waiting(cs) == Cardinality({i \in DOMAIN cs : cs[i].phase = "token"})

RECURSIVE NotWaiting(_)
NotWaiting(cs) ==
    IF cs = <<>> THEN <<>>
    ELSE IF Head(cs).phase = "token" THEN NotWaiting(Tail(cs))
         ELSE <<Head(cs)>> \o NotWaiting(Tail(cs))

\* axios.post of requestOpenSkyToken resolves
TokenResolved ==
    /\ refreshPromise
    /\ openSkyToken' = TRUE
    /\ refreshPromise' = FALSE
    /\ tokenRequests' = tokenRequests - 1
    /\ cycles' = ResumeWithToken(cycles, clientBounds)
    /\ out' = <<>>
    /\ ev' = [ Event("tokenResolved", "-", 0, FALSE) EXCEPT !.shifted =
                  \E i \in DOMAIN cycles :
                     /\ cycles[i].phase = "token"
                     /\ cycles[i].trigger # cycles'[i].bounds ]
    /\ UNCHANGED <<connectedClients, clientBounds, pollingInterval, timers,
                   lastFlightData, now, fetched>>
    /\ UNCHANGED <<pureVars, viewerVars>>

\* a catch block that only logs
CatchBlock_LogOnly(msg) == <<>>

\* the catch block of fetchAndBroadcastFlightData
CatchBlock(msg) == <<FlightError(msg, now)>>

\* the catch blocks of n calls, one after the other
RECURSIVE CatchBlocks(_, _)
CatchBlocks(n, msg) ==
    IF n = 0 THEN <<>> ELSE CatchBlock(msg) \o CatchBlocks(n - 1, msg)

\* axios.post of requestOpenSkyToken rejects: every call suspended at the token
\* gets 'Failed to obtain OpenSky access token', which is no axios error
TokenRejected ==
    /\ refreshPromise
    /\ refreshPromise' = FALSE
    /\ tokenRequests' = tokenRequests - 1
    /\ cycles' = NotWaiting(cycles)
    /\ out' = CatchBlocks(Waiting(cycles), "Unknown error")
    /\ ev' = Event("tokenRejected", "-", 0, FALSE)
    /\ UNCHANGED <<connectedClients, clientBounds, pollingInterval, timers,
                   lastFlightData, openSkyToken, now, fetched>>
    /\ UNCHANGED <<pureVars, viewerVars>>

\* the suspended calls left when call i ends; a write of lastFlightData by call i
\* overtakes the calls made before it
Without(cs, i, wrote) ==
    [ j \in 1..(Len(cs) - 1) |->
        IF j >= i THEN cs[j + 1]
        ELSE IF cs[j].phase = "http" THEN [cs[j] EXCEPT !.overtaken = @ \/ wrote]
        ELSE cs[j] ]

\* a broadcast that reports the aggregate at the time of the broadcast
HttpResolved_FreshBounds(i, raw) ==
    /\ i \in DOMAIN cycles
    /\ cycles[i].phase = "http"
    /\ LET r == ProcessFlightData(raw, now) IN
         /\ lastFlightData' = (IF r.ok THEN r.val ELSE lastFlightData)
         /\ fetched' = (fetched \/ r.ok)
         /\ out' = (IF r.ok
                    THEN <<FlightUpdateAll(r.val, now, GetOptimalBounds(clientBounds))>>
                    ELSE CatchBlock("Unknown error"))
         /\ cycles' = Without(cycles, i, r.ok)
         /\ ev' = Event(IF r.ok THEN "published" ELSE "failed", "-", 0,
                        cycles[i].overtaken)
    /\ UNCHANGED <<connectedClients, clientBounds, pollingInterval, timers,
                   openSkyToken, refreshPromise, tokenRequests, now>>
    /\ UNCHANGED <<pureVars, viewerVars>>

\* axios.get resolves with response.data = raw
HttpResolved(i, raw) ==
    /\ i \in DOMAIN cycles
    /\ cycles[i].phase = "http"
    /\ LET r == ProcessFlightData(raw, now) IN
         /\ lastFlightData' = (IF r.ok THEN r.val ELSE lastFlightData)
         /\ fetched' = (fetched \/ r.ok)
         /\ out' = (IF r.ok
                    THEN <<FlightUpdateAll(r.val, now, cycles[i].bounds)>>
                    ELSE CatchBlock("Unknown error"))
         /\ cycles' = Without(cycles, i, r.ok)
         /\ ev' = Event(IF r.ok THEN "published" ELSE "failed", "-", 0,
                        cycles[i].overtaken)
    /\ UNCHANGED <<connectedClients, clientBounds, pollingInterval, timers,
                   openSkyToken, refreshPromise, tokenRequests, now>>
    /\ UNCHANGED <<pureVars, viewerVars>>

\* a catch block that gives up polling
HttpRejected_Fatal(i, msg) ==
    /\ i \in DOMAIN cycles
    /\ cycles[i].phase = "http"
    /\ out' = CatchBlock(msg)
    /\ cycles' = Without(cycles, i, FALSE)
    /\ StopPolling
    /\ ev' = Event("failed", "-", 0, cycles[i].overtaken)
    /\ UNCHANGED <<connectedClients, clientBounds, lastFlightData, openSkyToken,
                   refreshPromise, tokenRequests, now, fetched>>
    /\ UNCHANGED <<pureVars, viewerVars>>

\* axios.get rejects: network error, timeout or a non-2xx status
HttpRejected(i, msg) ==
    /\ i \in DOMAIN cycles
    /\ cycles[i].phase = "http"
    /\ out' = CatchBlock(msg)
    /\ cycles' = Without(cycles, i, FALSE)
    /\ ev' = Event("failed", "-", 0, cycles[i].overtaken)
    /\ UNCHANGED <<connectedClients, clientBounds, pollingInterval, timers,
                   lastFlightData, openSkyToken, refreshPromise, tokenRequests, now, fetched>>
    /\ UNCHANGED <<pureVars, viewerVars>>

\* Date.now() reaches openSkyToken.expiresAt
TokenExpire ==
    /\ openSkyToken
    /\ openSkyToken' = FALSE
    /\ out' = <<>>
    /\ ev' = Event("expire", "-", 0, FALSE)
    /\ UNCHANGED <<connectedClients, clientBounds, pollingInterval, timers,
                   lastFlightData, cycles, refreshPromise, tokenRequests, now, fetched>>
    /\ UNCHANGED <<pureVars, viewerVars>>

\* a call of getStatistics(); out holds the object it returns
Statistics ==
    /\ out' = <<GetStatistics>>
    /\ ev' = Event("statistics", "-", 0, FALSE)
    /\ UNCHANGED <<connectedClients, clientBounds, pollingInterval, timers,
                   lastFlightData, cycles, openSkyToken, refreshPromise, tokenRequests, now,
                   fetched>>
    /\ UNCHANGED <<pureVars, viewerVars>>

----------------------------------------------------------------------------
(* The functions studied on their own: their inputs *)

MaxStored == 3       \* regions stored at once when getOptimalBounds is applied
MaxEntries == 2      \* entries of a states array when processFlightData is applied

\* no function has been applied
NoCall == [t |-> "none"]

\* regions as a client can send them: nested, overlapping, apart, and one with
\* its corners swapped
Regions ==
    { Box(45, 5, 47, 10), Box(40, 0, 50, 15), Box(46, 8, 52, 9),
      Box(10, 20, 12, 22), Box(48, 12, 46, 8) }

\* the contents clientBounds can have, the socket ids numbered
StoredRegions == UNION { [ids -> Regions] : ids \in SUBSET (1..MaxStored) }

\* state vectors as the upstream feed can send them
NoLatitude == StateVector(<<"d","4">>, Str(<<"T","2">>), Num(8), Null,
                          Num(100), Num(10), Num(1))
Short == Arr(<< Str(<<"e","5">>), Str(<<"T","3">>) >>)
Blank == StateVector(<<"f","6">>, Str(<<" "," ">>), Num(8), Num(47), Num(0),
                     Num(0), Num(2))
Empty == StateVector(<<"g","7">>, Str(<<>>), Num(8), Num(47), Null, Null, Num(9))
Padded == StateVector(<<"h","8">>, Str(<<" ","s","w","r","1"," ">>), Num(8),
                      Num(47), Num(500), Num(90), Num(7))
NumberCallsign == StateVector(<<"i","9">>, Num(5), Num(8), Num(47), Num(500),
                              Num(90), Num(7))

Entries ==
    { FlightA, FlightB, NoLongitude, NoLatitude, Short, Blank, Empty, Padded,
      NumberCallsign, Null }

SeqsUpTo(S, n) == UNION { [1..k -> S] : k \in 0..n }

Object(states) == [t |-> "obj", states |-> states]

\* response.data as the upstream feed can send it; an object without a states
\* field reads undefined for it
RawSnapshots ==
    { Null, Undef, Num(5), Object(Null), Object(Undef), Object(Num(0)),
      Object(Num(5)), Object(Str(<<"x">>)), Object(Object(Null)) }
    \cup { Object(Arr(s)) : s \in SeqsUpTo(Entries, MaxEntries) }

----------------------------------------------------------------------------
(* The viewer: the useFlightData hook *)

\* Latitudes and longitudes are counted in units of 0.0001 degree, altitudes in
\* metres, lastUpdate in seconds, timestamps and the clock in milliseconds.
ThrottleMs == 500        \* now - lastUpdateTimeRef.current < 500
PosThreshold == 1        \* > 0.0001 degree
AltThreshold == 100      \* > 100
SweepEvery == 10         \* updateCountRef.current % 10 === 0
StaleMs == 300000        \* (timestamp - 300000) / 1000

MaxApplied == 11     \* batches the hook applies
MaxBatch == 2        \* flights of a batch

\* the clock is read at the start of a window and at half and full window after it
Quantum == ThrottleMs \div 2

\* Date.now() when the hook is mounted: far more than a window after 0
Epoch == 4 * ThrottleMs

Abs(x) == IF x < 0 THEN -x ELSE x

\* a comparison that takes a difference equal to the threshold for a move
Exceeds_OrEqual(a, b, d) == a.t = "num" /\ b.t = "num" /\ Abs(a.v - b.v) >= d

\* Math.abs(a - b) > d; NaN compares false
Exceeds(a, b, d) == a.t = "num" /\ b.t = "num" /\ Abs(a.v - b.v) > d

\* a FlightData as processFlightData builds it
Flight(icao, lat, lon, alt, spd, last) ==
    [ icao24 |-> Str(icao),
      callsign |-> Str(<<"T","1">>),
      originCountry |-> Str(<<"C","H">>),
      position |-> IF lat = Null THEN Null
                   ELSE [latitude |-> lat, longitude |-> lon, altitude |-> alt],
      velocity |-> [speed |-> spd, heading |-> Num(180), verticalRate |-> Num(0)],
      onGround |-> Bool(FALSE),
      lastUpdate |-> last,
      category |-> Str(Unknown) ]

\* flight a: as first seen, moved by exactly the threshold, and moved by more
A0 == Flight(<<"a">>, Num(470000), Num(80000), Num(10000), Num(250), Num(900))
A1 == Flight(<<"a">>, Num(470001), Num(80000), Num(10100), Num(260), Num(910))
A2 == Flight(<<"a">>, Num(470002), Num(80000), Num(10000), Num(270), Num(915))
\* flight b: last seen more than five minutes before every batch
B0 == Flight(<<"b">>, Num(460000), Num(90000), Num(0), Num(0), Num(599))
\* flight c: without a position
C0 == Flight(<<"c">>, Null, Null, Null, Num(0), Num(900))

ViewerFlights == {A0, A1, A2, B0, C0}

\* Date.now() of the server when it sends a message
SentAt == 900000

\* the flightUpdate messages a viewer can receive
Batches ==
    { FlightUpdateAll(f, SentAt, Null) : f \in SeqsUpTo(ViewerFlights, MaxBatch) }

\* the flightError messages a viewer can receive
Errors == { FlightError(m, SentAt) : m \in AxiosErrors }

\* if (flight.position): the position is an object or null
Positioned(flight) == flight.position # Null

\* a callback that stores a new flight without the test of its position
MergeFlight_NoPositionTest(m, flight) ==
    IF flight.icao24 \notin DOMAIN m
    THEN MapSet(m, flight.icao24, flight)
    ELSE IF Positioned(flight) /\ Positioned(m[flight.icao24])
    THEN IF \/ Exceeds(m[flight.icao24].position.latitude,
                       flight.position.latitude, PosThreshold)
            \/ Exceeds(m[flight.icao24].position.longitude,
                       flight.position.longitude, PosThreshold)
            \/ Exceeds(m[flight.icao24].position.altitude,
                       flight.position.altitude, AltThreshold)
         THEN MapSet(m, flight.icao24, flight)
         ELSE m
    ELSE m

\* the newFlights.forEach callback on the map m
MergeFlight(m, flight) ==
    IF Positioned(flight)
    THEN IF \/ flight.icao24 \notin DOMAIN m
            \/ Exceeds(m[flight.icao24].position.latitude,
                       flight.position.latitude, PosThreshold)
            \/ Exceeds(m[flight.icao24].position.longitude,
                       flight.position.longitude, PosThreshold)
            \/ Exceeds(m[flight.icao24].position.altitude,
                       flight.position.altitude, AltThreshold)
         THEN MapSet(m, flight.icao24, flight)
         ELSE m
    ELSE m

RECURSIVE MergeFlights(_, _)
MergeFlights(m, newFlights) ==
    IF newFlights = <<>> THEN m
    ELSE MergeFlights(MergeFlight(m, Head(newFlights)), Tail(newFlights))

NewFlightIds(newFlights) ==
    { newFlights[i].icao24 :
        i \in {j \in DOMAIN newFlights : Positioned(newFlights[j])} }

\* flight.lastUpdate < (timestamp - 300000) / 1000
Stale(flight, timestamp) ==
    flight.lastUpdate.t = "num" /\ flight.lastUpdate.v * 1000 < timestamp - StaleMs

\* a sweep that removes every flight the batch does not hold
Sweep_Absent(m, ids, timestamp) ==
    [ k \in {x \in DOMAIN m : x \in ids} |-> m[k] ]

\* the loop that removes stale flights
Sweep(m, ids, timestamp) ==
    [ k \in {x \in DOMAIN m : ~(x \notin ids /\ Stale(m[x], timestamp))} |-> m[k] ]

\* an updater that sweeps on every batch
Reconcile_SweepAlways(prevFlights, newFlightData, count) ==
    Sweep(MergeFlights(prevFlights, newFlightData.flights),
          NewFlightIds(newFlightData.flights), newFlightData.timestamp)

\* the updater passed to setFlights, with updateCountRef.current = count
Reconcile(prevFlights, newFlightData, count) ==
    LET updatedFlights == MergeFlights(prevFlights, newFlightData.flights) IN
      IF count % SweepEvery = 0
      THEN Sweep(updatedFlights, NewFlightIds(newFlightData.flights),
                 newFlightData.timestamp)
      ELSE updatedFlights

\* op: the handler; applied: it went past its guards
Seen(op, applied) == [op |-> op, applied |-> applied]

\* an updateFlights that throttles the map alone: the stats and the error follow
\* every batch
UpdateFlights_ThrottleMapOnly(newFlightData) ==
    /\ IF ~isMountedRef
       THEN /\ vev' = Seen("flightUpdate", FALSE)
            /\ UNCHANGED <<flights, stats, error, isLoading, updateCountRef,
                           lastUpdateTimeRef>>
       ELSE /\ stats' = [stats EXCEPT !.totalFlights = newFlightData.totalFlights,
                                      !.lastUpdate = Num(newFlightData.timestamp)]
            /\ error' = Null
            /\ isLoading' = FALSE
            /\ IF clock - lastUpdateTimeRef < ThrottleMs
               THEN /\ vev' = Seen("flightUpdate", FALSE)
                    /\ UNCHANGED <<flights, updateCountRef, lastUpdateTimeRef>>
               ELSE /\ updateCountRef < MaxApplied
                    /\ lastUpdateTimeRef' = clock
                    /\ flights' = Reconcile(flights, newFlightData, updateCountRef)
                    /\ updateCountRef' = updateCountRef + 1
                    /\ vev' = Seen("flightUpdate", TRUE)
    /\ UNCHANGED <<isMountedRef, clock, socket, debounceVars, serviceVars, pureVars>>

\* an updateFlights whose window starts at the last batch received
UpdateFlights_WindowFromReceived(newFlightData) ==
    /\ IF ~isMountedRef
       THEN /\ vev' = Seen("flightUpdate", FALSE)
            /\ UNCHANGED <<flights, stats, error, isLoading, updateCountRef,
                           lastUpdateTimeRef>>
       ELSE IF clock - lastUpdateTimeRef < ThrottleMs
       THEN /\ lastUpdateTimeRef' = clock
            /\ vev' = Seen("flightUpdate", FALSE)
            /\ UNCHANGED <<flights, stats, error, isLoading, updateCountRef>>
       ELSE /\ updateCountRef < MaxApplied
            /\ lastUpdateTimeRef' = clock
            /\ flights' = Reconcile(flights, newFlightData, updateCountRef)
            /\ updateCountRef' = updateCountRef + 1
            /\ stats' = [stats EXCEPT !.totalFlights = newFlightData.totalFlights,
                                      !.lastUpdate = Num(newFlightData.timestamp)]
            /\ error' = Null
            /\ isLoading' = FALSE
            /\ vev' = Seen("flightUpdate", TRUE)
    /\ UNCHANGED <<isMountedRef, clock, socket, debounceVars, serviceVars, pureVars>>

\* an updateFlights whose throttle drops the batches that come after the window
UpdateFlights_InvertedThrottle(newFlightData) ==
    /\ IF ~isMountedRef \/ clock - lastUpdateTimeRef >= ThrottleMs
       THEN /\ vev' = Seen("flightUpdate", FALSE)
            /\ UNCHANGED <<flights, stats, error, isLoading, updateCountRef,
                           lastUpdateTimeRef>>
       ELSE /\ updateCountRef < MaxApplied
            /\ lastUpdateTimeRef' = clock
            /\ flights' = Reconcile(flights, newFlightData, updateCountRef)
            /\ updateCountRef' = updateCountRef + 1
            /\ stats' = [stats EXCEPT !.totalFlights = newFlightData.totalFlights,
                                      !.lastUpdate = Num(newFlightData.timestamp)]
            /\ error' = Null
            /\ isLoading' = FALSE
            /\ vev' = Seen("flightUpdate", TRUE)
    /\ UNCHANGED <<isMountedRef, clock, socket, debounceVars, serviceVars, pureVars>>

\* an updateFlights without setError(null)
UpdateFlights_KeepsError(newFlightData) ==
    /\ IF ~isMountedRef \/ clock - lastUpdateTimeRef < ThrottleMs
       THEN /\ vev' = Seen("flightUpdate", FALSE)
            /\ UNCHANGED <<flights, stats, error, isLoading, updateCountRef,
                           lastUpdateTimeRef>>
       ELSE /\ updateCountRef < MaxApplied
            /\ lastUpdateTimeRef' = clock
            /\ flights' = Reconcile(flights, newFlightData, updateCountRef)
            /\ updateCountRef' = updateCountRef + 1
            /\ stats' = [stats EXCEPT !.totalFlights = newFlightData.totalFlights,
                                      !.lastUpdate = Num(newFlightData.timestamp)]
            /\ error' = error
            /\ isLoading' = FALSE
            /\ vev' = Seen("flightUpdate", TRUE)
    /\ UNCHANGED <<isMountedRef, clock, socket, debounceVars, serviceVars, pureVars>>

\* updateFlights(newFlightData)
UpdateFlights(newFlightData) ==
    /\ IF ~isMountedRef \/ clock - lastUpdateTimeRef < ThrottleMs
       THEN /\ vev' = Seen("flightUpdate", FALSE)
            /\ UNCHANGED <<flights, stats, error, isLoading, updateCountRef,
                           lastUpdateTimeRef>>
       ELSE /\ updateCountRef < MaxApplied
            /\ lastUpdateTimeRef' = clock
            /\ flights' = Reconcile(flights, newFlightData, updateCountRef)
            /\ updateCountRef' = updateCountRef + 1
            /\ stats' = [stats EXCEPT !.totalFlights = newFlightData.totalFlights,
                                      !.lastUpdate = Num(newFlightData.timestamp)]
            /\ error' = Null
            /\ isLoading' = FALSE
            /\ vev' = Seen("flightUpdate", TRUE)
    /\ UNCHANGED <<isMountedRef, clock, socket, debounceVars, serviceVars, pureVars>>

\* a handleError that clears the map as well
HandleError_ClearsFlights(errorData) ==
    /\ IF ~isMountedRef
       THEN /\ vev' = Seen("flightError", FALSE)
            /\ UNCHANGED <<flights, error, isLoading>>
       ELSE /\ error' = Str(errorData.message)
            /\ isLoading' = FALSE
            /\ flights' = <<>>
            /\ vev' = Seen("flightError", TRUE)
    /\ UNCHANGED <<stats, updateCountRef, lastUpdateTimeRef, isMountedRef,
                   clock, socket, debounceVars, serviceVars, pureVars>>

\* handleError(errorData)
HandleError(errorData) ==
    /\ IF ~isMountedRef
       THEN /\ vev' = Seen("flightError", FALSE)
            /\ UNCHANGED <<error, isLoading>>
       ELSE /\ error' = Str(errorData.message)
            /\ isLoading' = FALSE
            /\ vev' = Seen("flightError", TRUE)
    /\ UNCHANGED <<flights, stats, updateCountRef, lastUpdateTimeRef, isMountedRef,
                   clock, socket, debounceVars, serviceVars, pureVars>>

\* updateConnectionStatus, on the socket's connect and disconnect: connected is
\* what getConnectionStatus reads from a socket that is still there
UpdateConnectionStatus(connected) ==
    /\ socket' = IF socket = Null THEN Null ELSE [connected |-> connected]
    /\ IF ~isMountedRef
       THEN /\ vev' = Seen("status", FALSE)
            /\ UNCHANGED stats
       ELSE /\ stats' = [stats EXCEPT !.isConnected = connected]
            /\ vev' = Seen("status", TRUE)
    /\ UNCHANGED <<flights, error, isLoading, updateCountRef, lastUpdateTimeRef,
                   isMountedRef, clock, debounceVars, serviceVars, pureVars>>

\* the stats App hands to the StatusPanel: flights is the array of the map's
\* values
StatusPanelStats == [stats EXCEPT !.totalFlights = Cardinality(DOMAIN flights)]

\* the cleanup of the effect, with socketService.disconnect()
Unmount ==
    /\ isMountedRef
    /\ isMountedRef' = FALSE
    /\ socket' = Null
    /\ vev' = Seen("unmount", TRUE)
    /\ UNCHANGED <<flights, stats, error, isLoading, updateCountRef,
                   lastUpdateTimeRef, clock, debounceVars, serviceVars, pureVars>>

\* time passes in the browser; once a window has passed since the last applied
\* batch, more time changes nothing the hook reads
AdvanceClock ==
    /\ clock - lastUpdateTimeRef < ThrottleMs \/ timeout # Null
    /\ timeout # Null => clock < timeout.due
    /\ clock' = clock + Quantum
    /\ vev' = Seen("time", TRUE)
    /\ UNCHANGED <<flights, stats, error, isLoading, isMountedRef, updateCountRef,
                   lastUpdateTimeRef, socket, debounceVars, serviceVars, pureVars>>

\* the wait of the debounced updateBounds
DebounceMs == 1000

MaxChanges == 3      \* calls of updateBounds in one behaviour

\* an updateBounds event as the socket sent it at the time at
Emitted(bounds, at) == [event |-> "updateBounds", bounds |-> bounds, at |-> at]

\* updateBounds(bounds) of the hook: debounce's clearTimeout and setTimeout. A
\* timer that is due runs before a later call.
UpdateBounds(bounds) ==
    /\ isMountedRef
    /\ Len(changes) < MaxChanges
    /\ timeout # Null => clock < timeout.due
    /\ timeout' = [args |-> bounds, due |-> clock + DebounceMs]
    /\ changes' = Append(changes, [bounds |-> bounds, at |-> clock])
    /\ vev' = Seen("updateBounds", TRUE)
    /\ UNCHANGED <<flights, stats, error, isLoading, isMountedRef, updateCountRef,
                   lastUpdateTimeRef, clock, socket, emitted, wire, serviceVars, pureVars>>

\* a timer that emits whatever the socket is
DebounceFires_AlwaysEmits ==
    /\ timeout # Null
    /\ clock >= timeout.due
    /\ timeout' = Null
    /\ emitted' = Append(emitted, Emitted(timeout.args, clock))
    /\ wire' = Append(wire, timeout.args)
    /\ vev' = Seen("timer", TRUE)
    /\ UNCHANGED <<flights, stats, error, isLoading, isMountedRef, updateCountRef,
                   lastUpdateTimeRef, clock, socket, changes, serviceVars, pureVars>>

\* the timer of debounce runs func(...args): socketService.updateBounds(bounds)
DebounceFires ==
    /\ timeout # Null
    /\ clock >= timeout.due
    /\ timeout' = Null
    /\ IF socket # Null /\ socket.connected
       THEN /\ emitted' = Append(emitted, Emitted(timeout.args, clock))
            /\ wire' = Append(wire, timeout.args)
            /\ vev' = Seen("timer", TRUE)
       ELSE /\ emitted' = emitted
            /\ wire' = wire
            /\ vev' = Seen("timer", FALSE)
    /\ UNCHANGED <<flights, stats, error, isLoading, isMountedRef, updateCountRef,
                   lastUpdateTimeRef, clock, socket, changes, serviceVars, pureVars>>

----------------------------------------------------------------------------
(* The updater of the entity map studied on its own: its inputs *)

MaxCount == 10       \* updateCountRef.current when the updater runs

\* flight a moved in longitude alone, in altitude alone, and by exactly the
\* thresholds the other way
A3 == Flight(<<"a">>, Num(470000), Num(80002), Num(10000), Num(280), Num(920))
A4 == Flight(<<"a">>, Num(470000), Num(80000), Num(10101), Num(290), Num(925))
A5 == Flight(<<"a">>, Num(469999), Num(80001), Num(9900), Num(300), Num(930))
\* flight b last seen exactly five minutes before the batch
B1 == Flight(<<"b">>, Num(460000), Num(90000), Num(0), Num(0), Num(600))

\* the entity maps the updater can find: every entry has a position
StoredFlights ==
    { [k \in {f.icao24 : f \in fs} |-> CHOOSE f \in fs : f.icao24 = k] :
        fs \in { {}, {A0}, {B0}, {B1}, {A0, B0}, {A0, B1} } }

MergedFlights == {A0, A1, A2, A3, A4, A5, B0, C0}

\* what the updater is applied to
UpdaterInputs ==
    [ prevFlights : StoredFlights,
      newFlightData : { FlightUpdateAll(f, SentAt, Null) :
                          f \in SeqsUpTo(MergedFlights, MaxBatch) },
      count : 0..MaxCount ]

----------------------------------------------------------------------------
(* App: the flights the map renders *)

\* .slice(0, 500)
MaxMarkers == 500

\* mapBounds.contains([latitude, longitude]) of Leaflet: the borders are inside
MapContains(mapBounds, latitude, longitude) ==
    /\ latitude.v >= mapBounds.lamin /\ latitude.v <= mapBounds.lamax
    /\ longitude.v >= mapBounds.lomin /\ longitude.v <= mapBounds.lomax

\* the callback of flights.filter
Visible(mapBounds, flight) ==
    IF ~Positioned(flight) THEN FALSE
    ELSE MapContains(mapBounds, flight.position.latitude, flight.position.longitude)

\* x || 0 for a number or null
NumberOrZero(x) == IF Truthy(x) THEN x.v ELSE 0

\* (a.position?.altitude || 0) + (a.velocity?.speed || 0)
Priority(flight) ==
    (IF flight.position = Null THEN 0 ELSE NumberOrZero(flight.position.altitude))
    + (IF flight.velocity = Null THEN 0 ELSE NumberOrZero(flight.velocity.speed))

\* the flights of an array with one of the priorities, the highest priority
\* first and flights of one priority in the order of the array
RECURSIVE Descending(_, _)
Descending(array, priorities) ==
    IF priorities = {} THEN <<>>
    ELSE LET highest == Max(priorities) IN
           SelectSeq(array, LAMBDA flight : Priority(flight) = highest)
           \o Descending(array, priorities \ {highest})

\* a sort that leaves the array as it is
SortByPriority_Unsorted(array) == array

\* Array.prototype.sort with the comparator (bAlt + bSpeed) - (aAlt + aSpeed):
\* the sort is stable, and the array it returns is the array it was given
SortByPriority(array) ==
    Descending(array, {Priority(array[i]) : i \in DOMAIN array})

\* visibleFlights: the array flights itself without mapBounds, a new one with
Filter(array, mapBounds) ==
    IF mapBounds = Null THEN array
    ELSE SelectSeq(array, LAMBDA flight : Visible(mapBounds, flight))

\* .slice(0, 500)
Slice(array) ==
    SubSeq(array, 1, IF Len(array) < MaxMarkers THEN Len(array) ELSE MaxMarkers)

\* the two memos of App for the array flights of the hook and the state
\* mapBounds: limitedFlights, and flights as the sort leaves it, which is the
\* array sorted when visibleFlights is flights itself
Select(array, mapBounds) ==
    LET sorted == SortByPriority(Filter(array, mapBounds)) IN
      [ limitedFlights |-> Slice(sorted),
        flights |-> IF mapBounds = Null THEN sorted ELSE array ]

\* Inputs of the selection: arrays of the values of a map, so of positioned
\* flights with different keys

MaxListed == 3       \* flights in the short arrays
MaxOver == 2         \* flights above MaxMarkers in the long arrays

\* flight d: outside the region of the map, the highest and fastest
D0 == Flight(<<"d">>, Num(520000), Num(130000), Num(11000), Num(300), Num(900))
\* flight e: as high and fast as flight a, taken together
E0 == Flight(<<"e">>, Num(465000), Num(85000), Num(10250), Num(0), Num(900))

ListedFlights == {A0, B0, D0, E0}

\* the bounds of the map of Leaflet, in the units of the positions
MapRegion == Box(450000, 50000, 480000, 100000)

Digit == <<"0", "1", "2", "3", "4", "5", "6", "7", "8", "9">>

\* the decimal digits of i
RECURSIVE Digits(_)
Digits(i) ==
    IF i < 10 THEN <<Digit[i + 1]>> ELSE Append(Digits(i \div 10), Digit[(i % 10) + 1])

\* the i-th flight of a crowded sky: one in 251 is outside the region
Crowded(i) ==
    Flight(Digits(i),
           Num(IF i % 251 = 0 THEN 520000 ELSE 460000 + (i % 7) * 1000),
           Num(80000), Num(((i * 7) % 11) * 1000), Num((i % 3) * 100), Num(900))

Crowd(n) == [i \in 1..n |-> Crowded(i)]

FlightArrays ==
    { a \in SeqsUpTo(ListedFlights, MaxListed) :
        \A i, j \in DOMAIN a : i # j => a[i].icao24 # a[j].icao24 }
    \cup { Crowd(n) : n \in (MaxMarkers - 1)..(MaxMarkers + MaxOver + 1) }

Selections == [ flights : FlightArrays, mapBounds : {Null, MapRegion} ]

----------------------------------------------------------------------------
(* Runs of applied batches: their inputs *)

MaxSeenAt == 11      \* the applied batch that holds the flight for the last time
MaxAbsent == 10      \* applied batches after it, all without the flight

\* a flight seen for the last time in the applied batch seenAt, and absent from
\* the more batches applied after it
Absences == [ flight : {B0, B1}, seenAt : 1..MaxSeenAt, more : 0..MaxAbsent ]

\* the batches of such a run: the other batches hold flight a alone
BatchesOf(run) ==
    [ i \in 1..(run.seenAt + run.more) |->
        FlightUpdateAll(IF i = run.seenAt THEN <<A0, run.flight>> ELSE <<A0>>,
                        SentAt, Null) ]

\* flight b seen again a second before the batches: where it was, and moved
B2 == Flight(<<"b">>, Num(460000), Num(90000), Num(0), Num(0), Num(899))
B3 == Flight(<<"b">>, Num(460002), Num(90000), Num(0), Num(0), Num(899))

\* a flight stored from the applied batch seenAt - 1, reported again by the
\* batch seenAt, and absent from the more batches applied after it
Refreshes ==
    [ first : {B0, B1}, latest : {B2, B3}, seenAt : 2..MaxSeenAt, more : 0..MaxAbsent ]

RefreshBatches(run) ==
    [ i \in 1..(run.seenAt + run.more) |->
        FlightUpdateAll(IF i = run.seenAt - 1 THEN <<A0, run.first>>
                        ELSE IF i = run.seenAt THEN <<A0, run.latest>>
                        ELSE <<A0>>,
                        SentAt, Null) ]

\* the maps the updater leaves after each batch of a sequence, every batch
\* applied: m is the map and count is updateCountRef.current before the first
RECURSIVE Replay(_, _, _)
Replay(m, batches, count) ==
    IF batches = <<>> THEN <<>>
    ELSE LET next == Reconcile(m, Head(batches), count) IN
           <<next>> \o Replay(next, Tail(batches), count + 1)

----------------------------------------------------------------------------

ViewerInit ==
    /\ flights = <<>>
    /\ stats = [ totalFlights |-> 0, lastUpdate |-> Null, connectedClients |-> 1,
                 isConnected |-> FALSE ]
    /\ error = Null
    /\ isLoading = TRUE
    /\ isMountedRef = TRUE
    /\ updateCountRef = 0
    /\ lastUpdateTimeRef = 0
    /\ clock = Epoch
    /\ vev = Seen("init", FALSE)
    /\ socket = [connected |-> FALSE]
    /\ timeout = Null
    /\ emitted = <<>>
    /\ wire = <<>>
    /\ changes = <<>>

ServiceInit ==
    /\ connectedClients = {}
    /\ clientBounds = <<>>
    /\ pollingInterval = NoTimer
    /\ timers = {}
    /\ lastFlightData = <<>>
    /\ cycles = <<>>
    /\ openSkyToken = FALSE
    /\ refreshPromise = FALSE
    /\ tokenRequests = 0
    /\ now = 0
    /\ fetched = FALSE
    /\ out = <<>>
    /\ ev = [ op |-> "init", id |-> "-", prevCount |-> 0, started |-> 0,
              late |-> FALSE, shifted |-> FALSE ]

Init ==
    /\ ServiceInit
    /\ ViewerInit
    /\ arg = NoCall
    /\ ret = NoCall

Next ==
    \/ \E id \in Clients : HandleClientConnection(id)
    \/ \E id \in Clients : HandleClientDisconnection(id)
    \/ \E id \in Clients, b \in BoundsVals : UpdateClientBounds(id, b)
    \/ \E h \in timers : Tick(h)
    \/ OpenSkyAuth
    \/ TokenResolved
    \/ TokenRejected
    \/ \E i \in 1..MaxInFlight, raw \in UpstreamSnapshots : HttpResolved(i, raw)
    \/ \E i \in 1..MaxInFlight, msg \in AxiosErrors : HttpRejected(i, msg)
    \/ TokenExpire
    \/ Statistics

Spec == Init /\ [][Next]_vars

\* the regions an updateBounds message can carry: the server takes the object
\* as it arrives
SentRegions == { Box(45, 5, 47, 10), Box(48, 12, 46, 8) }

\* The service when clients send regions of any shape
NextAnyRegion ==
    \/ \E id \in Clients : HandleClientConnection(id)
    \/ \E id \in Clients : HandleClientDisconnection(id)
    \/ \E id \in Clients, b \in SentRegions : UpdateClientBounds(id, b)
    \/ \E h \in timers : Tick(h)
    \/ OpenSkyAuth
    \/ TokenResolved
    \/ TokenRejected
    \/ \E i \in 1..MaxInFlight, raw \in UpstreamSnapshots : HttpResolved(i, raw)
    \/ \E i \in 1..MaxInFlight, msg \in AxiosErrors : HttpRejected(i, msg)
    \/ TokenExpire
    \/ Statistics

SpecAnyRegion == Init /\ [][NextAnyRegion]_vars

\* getOptimalBounds applied to a stored map
InitAggregate ==
    /\ ServiceInit
    /\ ViewerInit
    /\ arg \in StoredRegions
    /\ ret = NoCall

ApplyGetOptimalBounds ==
    /\ ret = NoCall
    /\ ret' = Returned(GetOptimalBounds(arg))
    /\ UNCHANGED <<arg, serviceVars, viewerVars>>

SpecAggregate == InitAggregate /\ [][ApplyGetOptimalBounds]_vars

\* processFlightData applied to a snapshot
InitNormalize ==
    /\ ServiceInit
    /\ ViewerInit
    /\ arg \in RawSnapshots
    /\ ret = NoCall

ApplyProcessFlightData ==
    /\ ret = NoCall
    /\ ret' = ProcessFlightData(arg, now)
    /\ UNCHANGED <<arg, serviceVars, viewerVars>>

SpecNormalize == InitNormalize /\ [][ApplyProcessFlightData]_vars

\* the updater passed to setFlights applied to a map
InitReconcile ==
    /\ ServiceInit
    /\ ViewerInit
    /\ arg \in UpdaterInputs
    /\ ret = NoCall

ApplyReconcile ==
    /\ ret = NoCall
    /\ ret' = Returned(Reconcile(arg.prevFlights, arg.newFlightData, arg.count))
    /\ UNCHANGED <<arg, serviceVars, viewerVars>>

SpecReconcile == InitReconcile /\ [][ApplyReconcile]_vars

\* App renders the array of a hook
InitSelect ==
    /\ ServiceInit
    /\ ViewerInit
    /\ arg \in Selections
    /\ ret = NoCall

ApplySelect ==
    /\ ret = NoCall
    /\ ret' = Returned(Select(arg.flights, arg.mapBounds))
    /\ UNCHANGED <<arg, serviceVars, viewerVars>>

SpecSelect == InitSelect /\ [][ApplySelect]_vars

\* a hook that applies a run of batches in which a flight is reported twice
InitRefresh ==
    /\ ServiceInit
    /\ ViewerInit
    /\ arg \in Refreshes
    /\ ret = NoCall

ApplyRefresh ==
    /\ ret = NoCall
    /\ ret' = Returned(Replay(flights, RefreshBatches(arg), updateCountRef))
    /\ UNCHANGED <<arg, serviceVars, viewerVars>>

SpecRefresh == InitRefresh /\ [][ApplyRefresh]_vars

\* a hook that applies a run of batches, from its start
InitReplay ==
    /\ ServiceInit
    /\ ViewerInit
    /\ arg \in Absences
    /\ ret = NoCall

ApplyReplay ==
    /\ ret = NoCall
    /\ ret' = Returned(Replay(flights, BatchesOf(arg), updateCountRef))
    /\ UNCHANGED <<arg, serviceVars, viewerVars>>

SpecReplay == InitReplay /\ [][ApplyReplay]_vars

\* The viewer on its own: messages arrive in any order and at any time
NextViewer ==
    \/ \E b \in Batches : UpdateFlights(b)
    \/ \E e \in Errors : HandleError(e)
    \/ \E c \in BOOLEAN : UpdateConnectionStatus(c)
    \/ Unmount
    \/ AdvanceClock

SpecViewer == Init /\ [][NextViewer]_vars

\* The viewer that stays mounted and connected to a service that polls: time
\* passes, and the batches of the poll timer keep arriving
NextConnected ==
    \/ \E b \in Batches : UpdateFlights(b)
    \/ \E e \in Errors : HandleError(e)
    \/ UpdateConnectionStatus(TRUE)
    \/ AdvanceClock

SpecConnected ==
    /\ Init
    /\ [][NextConnected]_vars
    /\ WF_vars(AdvanceClock)
    /\ WF_vars(\E b \in Batches : UpdateFlights(b))

\* The viewer whose map moves: the regions App sends
MovedTo == {Box(45, 5, 47, 10), Box(46, 6, 48, 11)}

\* the hook after its first batch, which held flights a and b
ViewerAfterBatch ==
    /\ flights = MapSet(MapSet(<<>>, A0.icao24, A0), B0.icao24, B0)
    /\ stats = [ totalFlights |-> 2, lastUpdate |-> Num(SentAt),
                 connectedClients |-> 1, isConnected |-> TRUE ]
    /\ error = Null
    /\ isLoading = FALSE
    /\ isMountedRef = TRUE
    /\ updateCountRef = 1
    /\ lastUpdateTimeRef = Epoch
    /\ clock = Epoch
    /\ vev = Seen("flightUpdate", TRUE)
    /\ socket = [connected |-> TRUE]
    /\ timeout = Null
    /\ emitted = <<>>
    /\ wire = <<>>
    /\ changes = <<>>

InitDebounce ==
    /\ ServiceInit
    /\ ViewerInit \/ ViewerAfterBatch
    /\ arg = NoCall
    /\ ret = NoCall

NextDebounce ==
    \/ \E b \in MovedTo : UpdateBounds(b)
    \/ DebounceFires
    \/ AdvanceClock
    \/ \E c \in BOOLEAN : UpdateConnectionStatus(c)
    \/ Unmount

SpecDebounce == InitDebounce /\ [][NextDebounce]_vars

\* The viewer and the service it is connected to: a region the socket sent is
\* handled by the server's updateBounds handler of that socket
ViewerId == "c1"

\* socket.on('updateBounds') of the server, for the viewer's socket: the
\* handler is attached in the connection handler, after the socket has joined
ReceiveUpdateBounds ==
    /\ wire # <<>>
    /\ ViewerId \in connectedClients
    /\ SetClientBounds(ViewerId, Head(wire))
    /\ wire' = Tail(wire)
    /\ UNCHANGED <<flights, stats, error, isLoading, isMountedRef, updateCountRef,
                   lastUpdateTimeRef, clock, vev, socket, timeout, emitted, changes,
                   pureVars>>

NextRegion ==
    \/ HandleClientConnection(ViewerId)
    \/ HandleClientDisconnection(ViewerId)
    \/ \E c \in BOOLEAN : UpdateConnectionStatus(c)
    \/ \E b \in MovedTo : UpdateBounds(b)
    \/ DebounceFires
    \/ AdvanceClock
    \/ ReceiveUpdateBounds
    \/ TokenResolved
    \/ \E i \in 1..MaxInFlight : HttpRejected(i, "Network Error")

\* timers run, the socket delivers what it sent, the network answers, and a
\* socket that lost its connection connects again
SpecRegion ==
    /\ Init
    /\ [][NextRegion]_vars
    /\ WF_vars(AdvanceClock)
    /\ WF_vars(DebounceFires)
    /\ WF_vars(HandleClientConnection(ViewerId))
    /\ WF_vars(UpdateConnectionStatus(TRUE))
    /\ SF_vars(ReceiveUpdateBounds)
    /\ WF_vars(TokenResolved)
    /\ WF_vars(\E i \in 1..MaxInFlight : HttpRejected(i, "Network Error"))

----------------------------------------------------------------------------
(* Polling lifecycle *)

\* C1: the recurring timer is armed, and getStatistics reports isPolling, if and
\* only if at least one subscriber is registered; a tick-driven fetch cycle only
\* starts while a subscriber is registered.
C1_PollingIffSubscribers ==
    /\ GetStatistics.isPolling <=> (connectedClients # {})
    /\ (timers # {}) <=> (connectedClients # {})
    /\ (ev.op = "tick" => ev.prevCount >= 1)

\* the last subscriber has left a service that was polling
C1_Witness ==
    /\ ev.op = "leave" /\ ev.prevCount = 1
    /\ connectedClients = {} /\ timers = {} /\ fetched

\* C2: a join that takes the count from 0 to 1 starts exactly one fetch cycle
\* and arms the timer; a join at count >= 1 starts no fetch cycle and changes
\* neither the timer nor the polling state.
C2_JoinStartsPolling ==
    /\ [](ev.op = "join" /\ ev.prevCount = 0 =>
            /\ ev.started = 1
            /\ pollingInterval # NoTimer /\ timers = {pollingInterval})
    /\ [][ev'.op = "join" /\ ev'.prevCount = 0 =>
            /\ pollingInterval = NoTimer /\ timers = {}
            /\ Len(cycles') = Len(cycles) + 1
            /\ SubSeq(cycles', 1, Len(cycles)) = cycles]_vars
    /\ [][ev'.op = "join" /\ ev'.prevCount >= 1 =>
            /\ ev'.started = 0
            /\ UNCHANGED <<pollingInterval, timers, cycles>>]_vars

\* a subscriber joined an idle service that had polled before: one cycle was
\* started next to one still suspended, and the timer is armed again
C2_Witness ==
    /\ ev.op = "join" /\ ev.prevCount = 0 /\ ev.started = 1
    /\ fetched /\ Len(cycles) = 2 /\ timers = {pollingInterval}

\* C3: setBounds at count >= 1 starts exactly one extra fetch cycle and leaves the
\* polling state, the armed timer, the set of subscribers and every other
\* subscriber's region unchanged; the caller's region is replaced.
C3_SetBoundsFrame ==
    [][ev'.op = "setBounds" /\ connectedClients # {} =>
         /\ Len(cycles') = Len(cycles) + 1
         /\ SubSeq(cycles', 1, Len(cycles)) = cycles
         /\ UNCHANGED <<pollingInterval, timers, connectedClients>>
         /\ ev'.id \in DOMAIN clientBounds'
         /\ \A c \in Clients \ {ev'.id} :
              /\ (c \in DOMAIN clientBounds') <=> (c \in DOMAIN clientBounds)
              /\ c \in DOMAIN clientBounds => clientBounds'[c] = clientBounds[c]
      ]_vars

\* a subscriber replaced its region while the other one keeps a different region
C3_Witness ==
    /\ ev.op = "setBounds" /\ ev.prevCount = 2
    /\ DOMAIN clientBounds = Clients
    /\ \E c \in Clients : clientBounds[c] # clientBounds[ev.id]

----------------------------------------------------------------------------
(* Fetch cycles *)

InFlight == {i \in DOMAIN cycles : cycles[i].phase = "http"}

\* C4: at every moment at most one upstream fetch of the service is in flight.
C4_AtMostOneInFlight == Cardinality(InFlight) <= 1

\* C5: lastFlightData is written, and the update published, in the order in which
\* the fetch cycles were started: no cycle writes after a cycle started later.
C5_WritesInStartOrder == ev.op = "published" => ~ev.late

IsFlightError(m) ==
    /\ m.to = "all" /\ m.event = "flightError"
    /\ m.error = "Failed to fetch flight data"
    /\ m.message \in AxiosErrors \cup {"Unknown error"}
    /\ m.timestamp = now

\* C6: a fetch cycle that fails, at the credential or at the upstream call,
\* publishes one error message with a reason and a timestamp to all subscribers
\* and leaves lastFlightData as it was, so that a later joiner is sent the same
\* data as before; a cycle whose credential fails issues no upstream request.
C6_FailureKeepsCache ==
    [][ /\ ev'.op = "failed" =>
             /\ Len(out') = 1 /\ IsFlightError(out'[1])
             /\ lastFlightData' = lastFlightData
             /\ \A id \in Clients : CachedFor(id)' = CachedFor(id)
        /\ ev'.op = "tokenRejected" =>
             /\ Len(out') = Waiting(cycles)
             /\ \A k \in DOMAIN out' : IsFlightError(out'[k])
             /\ lastFlightData' = lastFlightData
             /\ \A id \in Clients : CachedFor(id)' = CachedFor(id)
             /\ Waiting(cycles') = 0
             /\ Len(cycles') = Len(cycles) - Waiting(cycles)
      ]_vars

\* a cycle failed while data of an earlier cycle is cached
C6_Witness ==
    /\ ev.op \in {"failed", "tokenRejected"} /\ Len(out) = 1
    /\ lastFlightData # <<>>

FetchFailed == ev.op = "failed" \/ (ev.op = "tokenRejected" /\ out # <<>>)

\* C7: after a failed fetch cycle, while a subscriber remains, the timer is still
\* armed and both the next tick and a setBounds start a new fetch cycle.
C7_FailureNotFatal ==
    FetchFailed /\ connectedClients # {} =>
        /\ pollingInterval # NoTimer /\ pollingInterval \in timers
        /\ ENABLED (\E h \in timers : Tick(h))
        /\ \A id \in connectedClients :
              ENABLED (\E b \in BoundsVals : UpdateClientBounds(id, b))

\* the only cycle in flight failed and a subscriber remains
C7_Witness == FetchFailed /\ connectedClients # {} /\ cycles = <<>>

\* C8 as claimed: a subscriber that joins at count >= 1 after a fetch cycle has
\* succeeded is sent the cached sequence on its own connection.
C8_JoinerGetsCacheOnceFetched ==
    ev.op = "join" /\ ev.prevCount >= 1 /\ fetched =>
        out = << [ to |-> ev.id, event |-> "flightUpdate",
                   flights |-> lastFlightData, timestamp |-> now,
                   totalFlights |-> Len(lastFlightData) ] >>

\* C8: a subscriber that joins at count >= 1 is sent, on its own connection, one
\* update with the cached sequence and totalFlights equal to its length when the
\* cached sequence is not empty, and nothing when it is empty.
C8_JoinerGetsNonEmptyCache ==
    ev.op = "join" /\ ev.prevCount >= 1 =>
        out = IF Len(lastFlightData) > 0
              THEN << [ to |-> ev.id, event |-> "flightUpdate",
                        flights |-> lastFlightData, timestamp |-> now,
                        totalFlights |-> Len(lastFlightData) ] >>
              ELSE <<>>

\* a second subscriber joined and was sent the cached flights
C8_Witness ==
    /\ ev.op = "join" /\ ev.prevCount >= 1
    /\ Len(out) = 1 /\ out[1].to = ev.id /\ out[1].totalFlights >= 1

\* C9: the update a successful cycle publishes carries the normalized sequence of
\* that cycle, its length as totalFlights and the bounds of that cycle's upstream
\* request (null when it was unfiltered); lastFlightData then equals the sequence.
C9_UpdateCarriesCycle ==
    [][ ev'.op = "published" =>
        \A i \in DOMAIN cycles, raw \in UpstreamSnapshots :
          HttpResolved(i, raw) =>
             /\ Len(out') = 1
             /\ out'[1].to = "all" /\ out'[1].event = "flightUpdate"
             /\ out'[1].flights = ProcessFlightData(raw, now).val
             /\ out'[1].totalFlights = Len(out'[1].flights)
             /\ out'[1].bounds = cycles[i].bounds
             /\ lastFlightData' = out'[1].flights
      ]_vars

\* a cycle with a filtered request published flights
C9_Witness ==
    /\ ev.op = "published" /\ Len(out) = 1
    /\ out[1].bounds # Null /\ out[1].totalFlights >= 1

\* C10 as claimed: every fetch cycle queries the upstream feed with the aggregate
\* of the regions stored when the cycle was triggered.
C10_RegionAtTrigger == ev.op = "tokenResolved" => ~ev.shifted

\* C10: a fetch cycle queries the upstream feed with the aggregate of the regions
\* stored when its credential is available: at its trigger with a valid token,
\* and when the refresh resolves otherwise; once the request is sent, its region
\* no longer changes.
C10_RegionAtRequest ==
    /\ [][ev'.op = "tokenResolved" =>
            /\ Len(cycles') = Len(cycles)
            /\ \A i \in DOMAIN cycles :
                 cycles'[i] = IF cycles[i].phase = "token"
                              THEN Requested(GetOptimalBounds(clientBounds))
                              ELSE cycles[i]]_vars
    /\ [][ev'.started = 1 /\ openSkyToken =>
            cycles'[Len(cycles')] = Requested(GetOptimalBounds(clientBounds'))]_vars
    /\ [][ev'.op \in {"join", "leave", "setBounds", "tick"} =>
            SubSeq(cycles', 1, Len(cycles)) = cycles]_vars

\* a cycle resumed with the token read another aggregate than at its trigger
C10_Witness == ev.op = "tokenResolved" /\ ev.shifted

----------------------------------------------------------------------------
(* Subscribers and their regions *)

\* C11: after a subscriber leaves, neither its registry entry nor a region for
\* its id remains, the regions of the other subscribers are unchanged, the
\* aggregate is the one of the other regions alone, and no step but a setBounds
\* of an id stores a region for it.
C11_LeaveForgetsRegion ==
    /\ [](ev.op = "leave" =>
            ev.id \notin connectedClients /\ ev.id \notin DOMAIN clientBounds)
    /\ [][ev'.op = "leave" =>
            /\ connectedClients' = connectedClients \ {ev'.id}
            /\ DOMAIN clientBounds' = DOMAIN clientBounds \ {ev'.id}
            /\ \A c \in DOMAIN clientBounds' : clientBounds'[c] = clientBounds[c]
            /\ GetOptimalBounds(clientBounds') =
                 GetOptimalBounds([c \in DOMAIN clientBounds \ {ev'.id} |->
                                     clientBounds[c]])]_vars
    /\ [][\A c \in Clients :
            c \notin DOMAIN clientBounds /\ c \in DOMAIN clientBounds' =>
                ev'.op = "setBounds" /\ ev'.id = c]_vars

\* one of two subscribers left while a request with the aggregate of both regions
\* is in flight; the region that remains is the smaller one
C11_Witness ==
    /\ ev.op = "leave" /\ ev.prevCount = 2
    /\ \E c \in connectedClients :
          /\ DOMAIN clientBounds = {c}
          /\ clientBounds[c] = Box(45, 5, 47, 10)
          /\ GetOptimalBounds(clientBounds) = Box(45, 5, 47, 10)
    /\ \E i \in DOMAIN cycles :
          cycles[i].phase = "http" /\ cycles[i].bounds = Box(40, 0, 50, 15)

\* C12: every id that has a stored region is a registered subscriber.
C12_RegionsOnlyOfSubscribers == DOMAIN clientBounds \subseteq connectedClients

----------------------------------------------------------------------------
(* The aggregated region *)

Contains(outer, inner) ==
    /\ outer.lamin <= inner.lamin /\ outer.lomin <= inner.lomin
    /\ outer.lamax >= inner.lamax /\ outer.lomax >= inner.lomax

\* C13: the aggregated region is no region when none is stored, the stored
\* region when one is stored, and for two or more the rectangle of the least
\* south, the least west, the greatest north and the greatest east of the stored
\* regions; whenever a region is stored the result contains every stored region.
C13_AggregateIsEnvelope ==
    ret # NoCall =>
        LET r == ret.val
            n == Cardinality(DOMAIN arg)
        IN /\ ret.ok
           /\ n = 0 => r = Null
           /\ n = 1 => \A k \in DOMAIN arg : r = arg[k]
           /\ n >= 2 =>
                /\ \E k \in DOMAIN arg : r.lamin = arg[k].lamin
                /\ \E k \in DOMAIN arg : r.lomin = arg[k].lomin
                /\ \E k \in DOMAIN arg : r.lamax = arg[k].lamax
                /\ \E k \in DOMAIN arg : r.lomax = arg[k].lomax
           /\ n >= 1 => \A k \in DOMAIN arg : Contains(r, arg[k])

\* the aggregate of three regions is none of them
C13_Witness ==
    /\ ret # NoCall /\ Cardinality(DOMAIN arg) = 3
    /\ \A k \in DOMAIN arg : ret.val # arg[k]
    /\ \E k \in DOMAIN arg : arg[k] = Box(10, 20, 12, 22)
    /\ \E k \in DOMAIN arg : arg[k] = Box(46, 8, 52, 9)

WellFormed(b) == b.lamin <= b.lamax /\ b.lomin <= b.lomax

\* C14: every region stored for a subscriber and every aggregated region sent to
\* the upstream feed has south <= north and west <= east.
C14_RegionsWellFormed ==
    /\ \A c \in DOMAIN clientBounds : WellFormed(clientBounds[c])
    /\ \A i \in DOMAIN cycles :
          cycles[i].phase = "http" /\ cycles[i].bounds # Null =>
              WellFormed(cycles[i].bounds)

----------------------------------------------------------------------------
(* Statistics *)

\* C15: getStatistics reports the number of registered subscribers, whether the
\* timer is armed and the length of the cached sequence, and a call of it changes
\* no state of the service.
C15_StatisticsReadOnly ==
    /\ [](/\ GetStatistics.connectedClients = Cardinality(connectedClients)
          /\ GetStatistics.isPolling = (timers # {})
          /\ GetStatistics.totalFlights = Len(lastFlightData))
    /\ [](ev.op = "statistics" =>
            /\ Len(out) = 1
            /\ out[1].connectedClients = Cardinality(connectedClients)
            /\ out[1].isPolling = (timers # {})
            /\ out[1].totalFlights = Len(lastFlightData))
    /\ [][ev'.op = "statistics" =>
            UNCHANGED <<connectedClients, clientBounds, pollingInterval, timers,
                        lastFlightData, cycles, openSkyToken, refreshPromise, tokenRequests, now,
                        fetched>>]_vars

\* the statistics of a polling service with two subscribers and one cached flight
C15_Witness ==
    /\ ev.op = "statistics" /\ Len(out) = 1
    /\ out[1].connectedClients = 2 /\ out[1].isPolling
    /\ out[1].totalFlights = 1 /\ cycles # <<>>

\* C16: the statistics report a non-null lastUpdateTime if and only if a fetch
\* cycle has completed successfully, whatever number of flights it returned.
C16_CachedIffFetched == (GetStatistics.lastUpdateTime # Null) <=> fetched

----------------------------------------------------------------------------
(* The record normalizer *)

\* a snapshot without entries: null, no object, or an object whose states field
\* is null, absent, empty or no sequence
NoEntries(raw) ==
    \/ raw.t # "obj"
    \/ raw.states.t # "arr"
    \/ raw.states.v = <<>>

\* C17: for every raw snapshot that is null, or whose states field is null,
\* absent, empty or not a sequence, processFlightData returns the empty sequence.
C17_NoEntriesNoRecords ==
    ret # NoCall /\ NoEntries(arg) => ret = Returned(<<>>)

\* the normalizer returned for a snapshot whose states field is a number
C17_Witness ==
    /\ ret # NoCall /\ arg.t = "obj" /\ arg.states = Num(5)
    /\ ret.ok /\ ret.val = <<>>

Present(x) == x # Null /\ x # Undef

\* an entry with a latitude and a longitude
HasBoth(entry) == Present(At(entry, 6)) /\ Present(At(entry, 5))

\* an entry that is an array and whose callsign is a string, null or missing
WellTyped(entry) ==
    entry.t = "arr" /\ At(entry, 1).t \in {"str", "null", "undef"}

OrZero(x) == IF Present(x) THEN x ELSE Num(0)

\* C18: for a snapshot with a states sequence of well-typed entries, the output
\* holds, in input order, one record for each entry with both a latitude and a
\* longitude and none for the other entries; every record has a position and a
\* velocity, with altitude, speed, heading and vertical rate 0 when absent.
C18_OneRecordPerPositionedEntry ==
    /\ ret # NoCall /\ arg.t = "obj" /\ arg.states.t = "arr"
    /\ \A i \in DOMAIN arg.states.v : WellTyped(arg.states.v[i])
    => LET kept == SelectSeq(arg.states.v, HasBoth) IN
         /\ ret.ok
         /\ Len(ret.val) = Len(kept)
         /\ \A j \in DOMAIN ret.val :
               /\ ret.val[j].icao24 = At(kept[j], 0)
               /\ ret.val[j].position # Null
               /\ ret.val[j].position.latitude = At(kept[j], 6)
               /\ ret.val[j].position.longitude = At(kept[j], 5)
               /\ ret.val[j].position.altitude = OrZero(At(kept[j], 7))
               /\ ret.val[j].velocity =
                    [ speed |-> OrZero(At(kept[j], 9)),
                      heading |-> OrZero(At(kept[j], 10)),
                      verticalRate |-> OrZero(At(kept[j], 11)) ]

\* C19: the callsign of every record is the input callsign trimmed and
\* upper-cased, is never the empty string, and is "Unknown" when the input
\* callsign is absent, null or empty.
C19_CallsignNormalized ==
    /\ ret # NoCall /\ arg.t = "obj" /\ arg.states.t = "arr"
    /\ ret.ok /\ Len(ret.val) = Len(arg.states.v)
    => \A i \in DOMAIN ret.val :
         LET callsign == At(arg.states.v[i], 1) IN
           /\ ret.val[i].callsign.v # <<>>
           /\ ret.val[i].callsign =
                IF callsign \in {Null, Undef, Str(<<>>)}
                THEN Str(Unknown)
                ELSE Str(ToUpperCase(Trim(callsign.v)))

----------------------------------------------------------------------------
(* The viewer's throttle *)

\* C20: a batch that arrives less than 500 ms after the last applied batch is
\* discarded entirely: the entity map, the applied-batch counter, the last-applied
\* timestamp, the stats and the error state are what they were before it arrived.
C20_ThrottledBatchDiscarded ==
    [][vev'.op = "flightUpdate" /\ clock - lastUpdateTimeRef < 500 =>
         /\ ~vev'.applied
         /\ UNCHANGED <<flights, updateCountRef, lastUpdateTimeRef, stats, error,
                        isLoading>>]_vars

\* a batch was dropped half a window after the last applied one, which left one
\* flight in the map, and after an error was recorded
C20_Witness ==
    /\ vev = Seen("flightUpdate", FALSE) /\ isMountedRef
    /\ clock - lastUpdateTimeRef = Quantum
    /\ updateCountRef >= 1 /\ Cardinality(DOMAIN flights) = 1
    /\ stats.totalFlights = 2 /\ error # Null

\* C21: any two applied batches are at least 500 ms apart and the window is
\* measured from the last applied batch: a batch is applied only when at least
\* 500 ms have passed since the last applied one, which it then becomes; a
\* dropped batch leaves the start of the window where it was; and a batch that
\* arrives at least 500 ms after the last applied one is applied, whatever was
\* dropped in between.
C21_WindowFromLastApplied ==
    /\ [][vev'.op = "flightUpdate" /\ vev'.applied =>
            /\ clock - lastUpdateTimeRef >= 500
            /\ lastUpdateTimeRef' = clock]_vars
    /\ [][vev'.op = "flightUpdate" /\ ~vev'.applied =>
            lastUpdateTimeRef' = lastUpdateTimeRef]_vars
    /\ [][vev'.op = "flightUpdate" /\ isMountedRef
            /\ clock - lastUpdateTimeRef >= 500 => vev'.applied]_vars

\* the second batch was applied exactly one window after the first
C21_Witness ==
    /\ vev = Seen("flightUpdate", TRUE)
    /\ updateCountRef = 2
    /\ lastUpdateTimeRef = Epoch + ThrottleMs /\ clock = lastUpdateTimeRef

\* the map m shows the flights of the batch: every positioned flight of it is in
\* the map, at the position the batch gives up to the thresholds
Reflects(m, batch) ==
    \A i \in DOMAIN batch.flights :
       LET flight == batch.flights[i] IN
         /\ Positioned(flight)
         /\ \A j \in DOMAIN batch.flights :
               j > i => batch.flights[j].icao24 # flight.icao24
         => /\ flight.icao24 \in DOMAIN m
            /\ ~Exceeds(m[flight.icao24].position.latitude,
                        flight.position.latitude, 1)
            /\ ~Exceeds(m[flight.icao24].position.longitude,
                        flight.position.longitude, 1)
            /\ ~Exceeds(m[flight.icao24].position.altitude,
                        flight.position.altitude, 100)

\* C22: delivery is deliver-latest-wins: after a batch has been delivered to a
\* mounted viewer, also within the window of an earlier one, the entity map
\* reflects that batch.
C22_LatestBatchWins ==
    [][\A b \in Batches :
         UpdateFlights(b) /\ isMountedRef => Reflects(flights', b)]_vars

----------------------------------------------------------------------------
(* The viewer's entity map *)

\* the positions of the stored flight and of the one received are further apart
\* than a threshold
Moved(stored, received) ==
    \/ Abs(stored.position.latitude.v - received.position.latitude.v) > 1
    \/ Abs(stored.position.longitude.v - received.position.longitude.v) > 1
    \/ Abs(stored.position.altitude.v - received.position.altitude.v) > 100

\* C23: when a batch is applied, a positioned record whose key is not in the map
\* is inserted, and one whose key is in the map replaces the stored entry if and
\* only if its latitude or its longitude differs from the stored one by more than
\* 0.0001 or its altitude by more than 100; otherwise the stored entry is kept
\* with every field unchanged.
C23_ReplacedIffMoved ==
    ret # NoCall =>
        \A i \in DOMAIN arg.newFlightData.flights :
           LET flight == arg.newFlightData.flights[i]
               k == flight.icao24
           IN /\ flight.position # Null
              /\ \A j \in DOMAIN arg.newFlightData.flights :
                    j # i => arg.newFlightData.flights[j].icao24 # k
              => /\ k \in DOMAIN ret.val
                 /\ ret.val[k] =
                      IF k \notin DOMAIN arg.prevFlights
                      THEN flight
                      ELSE IF Moved(arg.prevFlights[k], flight)
                           THEN flight
                           ELSE arg.prevFlights[k]

\* a record that differs from the stored one by exactly the thresholds, and in
\* its speed and lastUpdate, left the stored entry as it was
C23_Witness ==
    /\ ret # NoCall
    /\ arg.newFlightData.flights = <<A5>>
    /\ Str(<<"a">>) \in DOMAIN arg.prevFlights
    /\ ret.val[Str(<<"a">>)] = A0 /\ A0 # A5

\* C26: an entry leaves the entity map only through the eviction sweep, and only
\* if its key is absent from the batch being applied and its lastUpdate is more
\* than 300 seconds older than the timestamp of the batch.
C26_EvictedOnlyAbsentAndOld ==
    ret # NoCall =>
        \A k \in DOMAIN arg.prevFlights :
            k \notin DOMAIN ret.val =>
                /\ arg.count % 10 = 0
                /\ \A i \in DOMAIN arg.newFlightData.flights :
                      arg.newFlightData.flights[i].icao24 # k
                /\ arg.newFlightData.timestamp
                     - arg.prevFlights[k].lastUpdate.v * 1000 > 300000

\* a sweep removed the old flight and kept the recent one, both absent from the
\* batch
C26_Witness ==
    /\ ret # NoCall /\ arg.count = 10
    /\ arg.newFlightData.flights = <<C0>>
    /\ DOMAIN arg.prevFlights = {Str(<<"a">>), Str(<<"b">>)}
    /\ DOMAIN ret.val = {Str(<<"a">>)}

----------------------------------------------------------------------------
(* Eviction over the applied batches *)

\* C24: the eviction sweep runs on the k-th applied batch only when k is a
\* multiple of 10: an applied batch that removes an entry is the 10th, the 20th,
\* ... since the start of the reconciler.
C24_SweepOnMultiplesOfTen ==
    [][ /\ vev'.op = "flightUpdate" /\ vev'.applied
        /\ \E k \in DOMAIN flights : k \notin DOMAIN flights'
        => updateCountRef' % 10 = 0 ]_vars

\* the flight of a run is more than 300 s older than the batches
Old(run) == SentAt - run.flight.lastUpdate.v * 1000 > 300000

\* C25 as claimed: an entity absent from 9 consecutive applied batches is still
\* in the map after each of them, whatever its age and wherever the absence
\* begins; absent through the 10th and more than 300 s old, it is evicted.
C25_NineAbsencesRetained ==
    ret # NoCall =>
        /\ \A n \in 1..9 :
              n <= arg.more =>
                  arg.flight.icao24 \in DOMAIN ret.val[arg.seenAt + n]
        /\ arg.more >= 10 /\ Old(arg) =>
              arg.flight.icao24 \notin DOMAIN ret.val[arg.seenAt + 10]

\* C25: an entity absent from consecutive applied batches stays in the map,
\* whatever its age, until the first of them on which the sweep runs (the 1st,
\* 11th, 21st, ... applied batch); on that batch it is evicted if its lastUpdate
\* is more than 300 s older than the batch, and stays otherwise. Absent through
\* 10 consecutive applied batches and that old, it is evicted by the tenth.
C25_RetainedUntilSweep ==
    ret # NoCall =>
        /\ Len(ret.val) = arg.seenAt + arg.more
        /\ \A j \in arg.seenAt..Len(ret.val) :
              arg.flight.icao24 \in DOMAIN ret.val[j]
                <=> ~(Old(arg) /\ \E t \in (arg.seenAt + 1)..j : t % 10 = 1)
        /\ arg.more >= 10 /\ Old(arg) =>
              arg.flight.icao24 \notin DOMAIN ret.val[arg.seenAt + 10]

\* a flight held by the 10th applied batch was evicted by the 11th, the first
\* without it
C25_Witness ==
    /\ ret # NoCall /\ arg.seenAt = 10 /\ arg.more >= 1
    /\ arg.flight.icao24 \in DOMAIN ret.val[10]
    /\ arg.flight.icao24 \notin DOMAIN ret.val[11]

----------------------------------------------------------------------------
(* What the viewer holds and shows *)

\* C27: in every reachable state of a viewer the entity map holds no record
\* whose position is null, whatever batches were delivered, those with records
\* without a position included.
C27_NoNullPosition == \A k \in DOMAIN flights : flights[k].position # Null

\* the first batch applied held the record without a position, alone
C27_Witness ==
    /\ vev = Seen("flightUpdate", TRUE) /\ updateCountRef = 1
    /\ stats.totalFlights = 1 /\ flights = <<>>

\* C28: after a batch is applied, the totalFlights and the lastUpdate the viewer
\* shows are the count and the timestamp the batch declares, not the size of
\* the entity map, also when the two differ.
C28_StatsFromBatch ==
    [][\A b \in Batches :
          UpdateFlights(b) /\ vev'.applied =>
              /\ StatusPanelStats'.totalFlights = b.totalFlights
              /\ StatusPanelStats'.lastUpdate = Num(b.timestamp)]_vars

\* C29: when an error message is received, the error state becomes the reason
\* the message carries, and the entity map, the counter of applied batches and
\* the time of the last applied batch stay as they were.
C29_ErrorKeepsFlights ==
    [][\A e \in Errors :
          HandleError(e) /\ isMountedRef =>
              /\ error' = Str(e.message)
              /\ UNCHANGED <<flights, updateCountRef, lastUpdateTimeRef>>]_vars

\* an error arrived after two flights were stored
C29_Witness ==
    /\ vev = Seen("flightError", TRUE) /\ error = Str("Network Error")
    /\ Cardinality(DOMAIN flights) = 2 /\ updateCountRef = 1

----------------------------------------------------------------------------
(* The debounced region changes *)

\* the change i is the last of its burst: the next one, if any, came a wait or
\* more after it
LastOfBurst(i) ==
    i = Len(changes) \/ changes[i + 1].at - changes[i].at >= DebounceMs

\* the timer the change i set has run
Ran(i) == i < Len(changes) \/ timeout = Null

\* what a burst that ends with the change i sends
SentFor(i) == Emitted(changes[i].bounds, changes[i].at + DebounceMs)

\* every event sent is the one of a burst whose timer has run, and no two
\* events are of the same burst
OnlyBursts ==
    /\ \A j \in DOMAIN emitted :
          \E i \in DOMAIN changes :
              LastOfBurst(i) /\ Ran(i) /\ emitted[j] = SentFor(i)
    /\ \A j, k \in DOMAIN emitted : j < k => emitted[j].at < emitted[k].at

\* a step of the debouncer leaves the entity map alone
MapUntouched ==
    [][vev'.op \in {"updateBounds", "timer"} => flights' = flights]_vars

----------------------------------------------------------------------------
(* The flights the map renders *)

Elements(array) == { array[i] : i \in DOMAIN array }

\* the flights of the input the selection may take
Candidates ==
    IF arg.mapBounds = Null THEN Elements(arg.flights)
    ELSE { flight \in Elements(arg.flights) : Visible(arg.mapBounds, flight) }

\* C31: the selection returns at most 500 flights, all of them inside the
\* visible region, or taken from all the flights when there is no region, in
\* the order of non-increasing altitude + speed, and no visible flight left out
\* has a strictly higher altitude + speed than one that is included.
C31_SelectsHighestVisible ==
    ret # NoCall =>
        LET limited == ret.val.limitedFlights IN
          /\ Len(limited) <= 500
          /\ Len(limited) = Min({500, Cardinality(Candidates)})
          /\ Elements(limited) \subseteq Candidates
          /\ Cardinality(Elements(limited)) = Len(limited)
          /\ \A i \in 1..(Len(limited) - 1) :
                Priority(limited[i]) >= Priority(limited[i + 1])
          /\ \A left \in Candidates \ Elements(limited) :
                \A taken \in Elements(limited) : Priority(left) <= Priority(taken)

\* of 503 flights, 501 are in the region and 500 are rendered
C31_Witness ==
    /\ ret # NoCall /\ arg.mapBounds = MapRegion
    /\ Len(arg.flights) = MaxMarkers + 3
    /\ Cardinality(Candidates) = MaxMarkers + 1
    /\ Len(ret.val.limitedFlights) = MaxMarkers

\* C33: the selection does not modify its inputs: after it the array of the
\* viewer's flights has the same elements in the same order as before, with a
\* visible region and without one.
C33_SelectionPure == ret # NoCall => ret.val.flights = arg.flights

----------------------------------------------------------------------------
(* The token refresh *)

\* C32: at most one token request is in flight at any time: a call of
\* getValidOpenSkyToken made while a refresh is in progress waits for that
\* refresh, gets its token or its failure and starts no request; once the
\* refresh has resolved or failed, a later call without a valid token starts a
\* new one.
C32_SingleFlightRefresh ==
    /\ tokenRequests <= 1
    /\ refreshPromise <=> tokenRequests = 1
    /\ Waiting(cycles) > 0 => refreshPromise
    /\ ev.op \in {"tokenResolved", "tokenRejected"} =>
          Waiting(cycles) = 0 /\ ~refreshPromise
    /\ ev.started = 1 /\ ~openSkyToken => refreshPromise /\ Waiting(cycles) > 0

\* two calls wait for one request
C32_Witness == Waiting(cycles) = 2 /\ tokenRequests = 1 /\ ev.started = 1

----------------------------------------------------------------------------
(* Malformed snapshots *)

\* C34: the normalizer never raises, for any snapshot, one whose states holds
\* null or non-array entries included, so that a fetch cycle whose upstream call
\* succeeded with such a snapshot publishes an update and no error message.
C34_NormalizerNeverRaises == ret # NoCall => ret.ok

----------------------------------------------------------------------------
(* The one poll timer *)

\* C35: at most one recurring poll timer exists at any time: no sequence of
\* joins and leaves, a repeated join of a registered id and a leave followed by
\* a join while a fetch is in flight included, arms a second timer or leaves an
\* armed timer the service can no longer disarm.
C35_OneTimer ==
    /\ Cardinality(timers) <= 1
    /\ \A h \in timers : h = pollingInterval
    /\ pollingInterval # NoTimer => pollingInterval \in timers

\* the only subscriber joined again while a fetch was in flight
C35_Witness ==
    /\ ev.op = "join" /\ ev.prevCount = 1 /\ connectedClients = {ev.id}
    /\ timers = {pollingInterval} /\ cycles # <<>> /\ fetched

----------------------------------------------------------------------------
(* The age the sweep reads *)

\* C36: the sweep judges a flight by the lastUpdate of its most recent applied
\* record: a flight whose most recent applied record has a lastUpdate within
\* 300 s of the batch's timestamp is never evicted, also when that record did
\* not replace the stored entry because it moved less than the thresholds.
C36_JudgedByLatestRecord ==
    ret # NoCall /\ SentAt - arg.latest.lastUpdate.v * 1000 <= 300000 =>
        \A j \in arg.seenAt..Len(ret.val) :
            arg.latest.icao24 \in DOMAIN ret.val[j]

----------------------------------------------------------------------------
(* The error the viewer shows *)

\* C39: the error state is cleared exactly when a batch is applied: a batch
\* dropped by the throttle leaves a recorded error in place, and a recorded
\* error never survives the next applied batch.
C39_ErrorClearedByAppliedBatch ==
    /\ [][vev'.op = "flightUpdate" /\ vev'.applied => error' = Null]_vars
    /\ [][vev'.op = "flightUpdate" /\ ~vev'.applied => error' = error]_vars
    /\ [][error # Null /\ error' = Null =>
            vev'.op = "flightUpdate" /\ vev'.applied]_vars

\* a mounted viewer dropped a batch and still shows the error recorded after
\* its first batch
C39_Witness ==
    /\ vev = Seen("flightUpdate", FALSE) /\ isMountedRef
    /\ error = Str("Network Error") /\ updateCountRef = 1
    /\ clock - lastUpdateTimeRef < ThrottleMs

----------------------------------------------------------------------------
(* Progress of the viewer *)

\* C38: a viewer is never stuck on dropped data: while it stays connected, the
\* service polls and the fetch cycles succeed, after any batch dropped by the
\* throttle a batch published later is eventually applied.
C38_DroppedThenApplied ==
    (vev = Seen("flightUpdate", FALSE) /\ updateCountRef < MaxApplied)
        ~> (vev = Seen("flightUpdate", TRUE))

\* a batch was dropped half a window after the first applied batch
C38_Witness ==
    /\ vev = Seen("flightUpdate", FALSE) /\ isMountedRef /\ updateCountRef = 1
    /\ clock - lastUpdateTimeRef = Quantum /\ error = Null

----------------------------------------------------------------------------
(* The region on its way to the server *)

\* the server holds the viewer's latest region
RegionStored ==
    /\ changes # <<>>
    /\ ViewerId \in DOMAIN clientBounds
    /\ clientBounds[ViewerId] = changes[Len(changes)].bounds

\* C40: a region change handed to the debouncer is eventually stored by the
\* server as that viewer's region, also when the socket is not connected at
\* the moment the debounce fires and after the connection is dropped and
\* re-established, without a further region change.
C40_RegionReachesServer == (changes # <<>>) ~> RegionStored

====
